---- MODULE Spec2Model ----
(***************************************************************************)
(* Model of sunpy.time: parse_time, is_time, extract_time and the helpers  *)
(* they call (_regex_parse_time, find_time, _iter_empty), with the parts   *)
(* of re, datetime.strptime, datetime and timedelta that decide their      *)
(* results.  Strings are sequences of one-character strings.               *)
(***************************************************************************)
EXTENDS Integers, Sequences, FiniteSets, TLC

\* ------------------------------------------------------------------------
\* Characters
\* ------------------------------------------------------------------------
Digits == <<"0", "1", "2", "3", "4", "5", "6", "7", "8", "9">>

Upper == <<"A", "B", "C", "D", "E", "F", "G", "H", "I", "J", "K", "L", "M",
           "N", "O", "P", "Q", "R", "S", "T", "U", "V", "W", "X", "Y", "Z">>

Lower == <<"a", "b", "c", "d", "e", "f", "g", "h", "i", "j", "k", "l", "m",
           "n", "o", "p", "q", "r", "s", "t", "u", "v", "w", "x", "y", "z">>

Range(seq) == {seq[k] : k \in DOMAIN seq}

IsDigit(c) == c \in Range(Digits)

IsAlpha(c) == c \in Range(Upper) \cup Range(Lower)

IsSpace(c) == c = " "

DigitVal(c) == CHOOSE n \in 0..9 : Digits[n + 1] = c

ToLower(c) ==
    IF c \in Range(Upper) THEN Lower[CHOOSE k \in 1..26 : Upper[k] = c] ELSE c

LowerStr(s) == [k \in DOMAIN s |-> ToLower(s[k])]

\* int() of a string of digits
RECURSIVE int(_)
int(s) == IF s = <<>> THEN 0
          ELSE 10 * int(SubSeq(s, 1, Len(s) - 1)) + DigitVal(s[Len(s)])

\* n written in w digits, zero padded
RECURSIVE Pad(_, _)
Pad(n, w) == IF w = 0 THEN <<>> ELSE Pad(n \div 10, w - 1) \o <<Digits[(n % 10) + 1]>>

Min(a, b) == IF a < b THEN a ELSE b

\* str.startswith
startswith(s, prefix) ==
    Len(prefix) <= Len(s) /\ SubSeq(s, 1, Len(prefix)) = prefix

\* ------------------------------------------------------------------------
\* datetime and timedelta
\* ------------------------------------------------------------------------
_is_leap(y) == y % 4 = 0 /\ (y % 100 # 0 \/ y % 400 = 0)

_days_in_month(y, m) ==
    IF m = 2 THEN (IF _is_leap(y) THEN 29 ELSE 28)
    ELSE IF m \in {4, 6, 9, 11} THEN 30 ELSE 31

_days_before_year(y) ==
    (y - 1) * 365 + (y - 1) \div 4 - (y - 1) \div 100 + (y - 1) \div 400

RECURSIVE _days_before_month(_, _)
_days_before_month(y, m) ==
    IF m = 1 THEN 0 ELSE _days_before_month(y, m - 1) + _days_in_month(y, m - 1)

_ymd2ord(y, m, d) == _days_before_year(y) + _days_before_month(y, m) + d

\* date.max is 9999-12-31
_MAXORDINAL == _ymd2ord(9999, 12, 31)

\* the (year, month, day) of proleptic Gregorian ordinal n, 1 <= n <= _MAXORDINAL
MonthOfYearDay(y, r) ==
    CHOOSE mm \in 1..12 :
        _days_before_month(y, mm) < r
        /\ r <= _days_before_month(y, mm) + _days_in_month(y, mm)

YearOfOrdinal(n) ==
    CHOOSE yy \in ((n - 1) \div 366 + 1)..((n - 1) \div 365 + 1) :
        _days_before_year(yy) < n /\ n <= _days_before_year(yy + 1)

YearDayToYmd(y, r) ==
    <<y, MonthOfYearDay(y, r), r - _days_before_month(y, MonthOfYearDay(y, r))>>

_ord2ymd(n) == YearDayToYmd(YearOfOrdinal(n), n - _days_before_year(YearOfOrdinal(n)))

\* datetime(year, month, day, hour, minute, second, microsecond): the value, or
\* the ValueError of a field out of range
FieldsValid(y, m, d, H, M, S, f) ==
    /\ 1 <= y /\ y <= 9999
    /\ 1 <= m /\ m <= 12
    /\ 1 <= d /\ d <= _days_in_month(y, m)
    /\ 0 <= H /\ H <= 23
    /\ 0 <= M /\ M <= 59
    /\ 0 <= S /\ S <= 59
    /\ 0 <= f /\ f <= 999999

datetime(y, m, d, H, M, S, f) ==
    [year |-> y, month |-> m, day |-> d, hour |-> H, minute |-> M,
     second |-> S, microsecond |-> f]

\* timedelta(days, seconds, microseconds), normalised as the constructor does
timedelta(days, seconds, microseconds) ==
    LET s == seconds + microseconds \div 1000000
    IN  [days |-> days + s \div 86400, seconds |-> s % 86400,
         microseconds |-> microseconds % 1000000]

\* the datetime of a date and a number of seconds and microseconds
combine(ymd, seconds, microseconds) ==
    datetime(ymd[1], ymd[2], ymd[3], seconds \div 3600, (seconds % 3600) \div 60,
             seconds % 60, microseconds)

\* the datetime of a normalised timedelta since ordinal 0, or
\* "OverflowError" when it is outside the date range
datetime_of_delta(delta) ==
    IF 0 < delta.days /\ delta.days <= _MAXORDINAL
    THEN [kind |-> "value",
          dt |-> combine(_ord2ymd(delta.days), delta.seconds, delta.microseconds)]
    ELSE [kind |-> "raise", exc |-> "OverflowError", origin |-> "call"]

\* datetime.__add__
datetime_add(dt, td) ==
    datetime_of_delta(
        timedelta(_ymd2ord(dt.year, dt.month, dt.day) + td.days,
                  dt.hour * 3600 + dt.minute * 60 + dt.second + td.seconds,
                  dt.microsecond + td.microseconds))

\* ------------------------------------------------------------------------
\* Format codes and the catalog
\* ------------------------------------------------------------------------
\* Mapping of time format codes to regular expressions: the code after "%"
\* to its named group, character class and repetition (max 0: unbounded)
REGEX ==
    [c \in {"Y", "m", "d", "H", "M", "S", "f", "b"} |->
        CASE c = "Y" -> [name |-> "year", cls |-> "digit", min |-> 4, max |-> 4]
          [] c = "m" -> [name |-> "month", cls |-> "digit", min |-> 1, max |-> 2]
          [] c = "d" -> [name |-> "day", cls |-> "digit", min |-> 1, max |-> 2]
          [] c = "H" -> [name |-> "hour", cls |-> "digit", min |-> 1, max |-> 2]
          [] c = "M" -> [name |-> "minute", cls |-> "digit", min |-> 1, max |-> 2]
          [] c = "S" -> [name |-> "second", cls |-> "digit", min |-> 1, max |-> 2]
          [] c = "f" -> [name |-> "microsecond", cls |-> "digit", min |-> 1, max |-> 0]
          [] c = "b" -> [name |-> "month_str", cls |-> "alpha", min |-> 1, max |-> 0]]

\* the catalog with "%Y-%m-%d" and "%Y-%m-%d %H:%M" in each other's place
TIME_FORMAT_LIST_date_first == <<
    <<"%", "Y", "-", "%", "m", "-", "%", "d", "T", "%", "H", ":", "%", "M", ":", "%", "S", ".", "%", "f">>,
    <<"%", "Y", "/", "%", "m", "/", "%", "d", "T", "%", "H", ":", "%", "M", ":", "%", "S", ".", "%", "f">>,
    <<"%", "Y", "-", "%", "m", "-", "%", "d", "T", "%", "H", ":", "%", "M", ":", "%", "S", ".", "%", "f", "Z">>,
    <<"%", "Y", "-", "%", "m", "-", "%", "d", "T", "%", "H", ":", "%", "M", ":", "%", "S">>,
    <<"%", "Y", "/", "%", "m", "/", "%", "d", "T", "%", "H", ":", "%", "M", ":", "%", "S">>,
    <<"%", "Y", "%", "m", "%", "d", "T", "%", "H", "%", "M", "%", "S", ".", "%", "f">>,
    <<"%", "Y", "%", "m", "%", "d", "T", "%", "H", "%", "M", "%", "S">>,
    <<"%", "Y", "/", "%", "m", "/", "%", "d", " ", "%", "H", ":", "%", "M", ":", "%", "S">>,
    <<"%", "Y", "/", "%", "m", "/", "%", "d", " ", "%", "H", ":", "%", "M">>,
    <<"%", "Y", "/", "%", "m", "/", "%", "d", " ", "%", "H", ":", "%", "M", ":", "%", "S", ".", "%", "f">>,
    <<"%", "Y", "-", "%", "m", "-", "%", "d", " ", "%", "H", ":", "%", "M", ":", "%", "S", ".", "%", "f">>,
    <<"%", "Y", "-", "%", "m", "-", "%", "d", " ", "%", "H", ":", "%", "M", ":", "%", "S">>,
    <<"%", "Y", "-", "%", "m", "-", "%", "d">>,
    <<"%", "Y", "-", "%", "b", "-", "%", "d", " ", "%", "H", ":", "%", "M", ":", "%", "S">>,
    <<"%", "Y", "-", "%", "b", "-", "%", "d", " ", "%", "H", ":", "%", "M">>,
    <<"%", "Y", "-", "%", "b", "-", "%", "d">>,
    <<"%", "Y", "-", "%", "m", "-", "%", "d", " ", "%", "H", ":", "%", "M">>,
    <<"%", "Y", "/", "%", "m", "/", "%", "d">>,
    <<"%", "d", "-", "%", "b", "-", "%", "Y">>,
    <<"%", "Y", "%", "m", "%", "d", "_", "%", "H", "%", "M", "%", "S">>
>>

TIME_FORMAT_LIST == <<
    <<"%", "Y", "-", "%", "m", "-", "%", "d", "T", "%", "H", ":", "%", "M", ":", "%", "S", ".", "%", "f">>,
    <<"%", "Y", "/", "%", "m", "/", "%", "d", "T", "%", "H", ":", "%", "M", ":", "%", "S", ".", "%", "f">>,
    <<"%", "Y", "-", "%", "m", "-", "%", "d", "T", "%", "H", ":", "%", "M", ":", "%", "S", ".", "%", "f", "Z">>,
    <<"%", "Y", "-", "%", "m", "-", "%", "d", "T", "%", "H", ":", "%", "M", ":", "%", "S">>,
    <<"%", "Y", "/", "%", "m", "/", "%", "d", "T", "%", "H", ":", "%", "M", ":", "%", "S">>,
    <<"%", "Y", "%", "m", "%", "d", "T", "%", "H", "%", "M", "%", "S", ".", "%", "f">>,
    <<"%", "Y", "%", "m", "%", "d", "T", "%", "H", "%", "M", "%", "S">>,
    <<"%", "Y", "/", "%", "m", "/", "%", "d", " ", "%", "H", ":", "%", "M", ":", "%", "S">>,
    <<"%", "Y", "/", "%", "m", "/", "%", "d", " ", "%", "H", ":", "%", "M">>,
    <<"%", "Y", "/", "%", "m", "/", "%", "d", " ", "%", "H", ":", "%", "M", ":", "%", "S", ".", "%", "f">>,
    <<"%", "Y", "-", "%", "m", "-", "%", "d", " ", "%", "H", ":", "%", "M", ":", "%", "S", ".", "%", "f">>,
    <<"%", "Y", "-", "%", "m", "-", "%", "d", " ", "%", "H", ":", "%", "M", ":", "%", "S">>,
    <<"%", "Y", "-", "%", "m", "-", "%", "d", " ", "%", "H", ":", "%", "M">>,
    <<"%", "Y", "-", "%", "b", "-", "%", "d", " ", "%", "H", ":", "%", "M", ":", "%", "S">>,
    <<"%", "Y", "-", "%", "b", "-", "%", "d", " ", "%", "H", ":", "%", "M">>,
    <<"%", "Y", "-", "%", "b", "-", "%", "d">>,
    <<"%", "Y", "-", "%", "m", "-", "%", "d">>,
    <<"%", "Y", "/", "%", "m", "/", "%", "d">>,
    <<"%", "d", "-", "%", "b", "-", "%", "Y">>,
    <<"%", "Y", "%", "m", "%", "d", "_", "%", "H", "%", "M", "%", "S">>
>>

NFormats == Len(TIME_FORMAT_LIST)

\* ------------------------------------------------------------------------
\* Regular expressions: a pattern is a sequence of tokens
\*   lit   one given character          any    "." (any character)
\*   space \s+                          group  a named group of REGEX
\*   dir   a directive of strptime's own pattern table
\* ------------------------------------------------------------------------
\* format.replace(key, value) for every key of REGEX; the other characters
\* stay as they are in the pattern, so "." stays the regex any-character
RECURSIVE re_compile(_, _)
re_compile(format, k) ==
    IF k > Len(format) THEN <<>>
    ELSE IF format[k] = "%" /\ k < Len(format) /\ format[k + 1] \in DOMAIN REGEX
    THEN <<[kind |-> "group", ch |-> format[k + 1],
            name |-> REGEX[format[k + 1]].name, cls |-> REGEX[format[k + 1]].cls,
            min |-> REGEX[format[k + 1]].min, max |-> REGEX[format[k + 1]].max]>>
         \o re_compile(format, k + 2)
    ELSE <<[kind |-> IF format[k] = "." THEN "any" ELSE "lit", ch |-> format[k],
            name |-> "", cls |-> "", min |-> 1, max |-> 1]>>
         \o re_compile(format, k + 1)

\* _strptime's pattern for a format: regex characters escaped (so "." is a
\* literal), white space replaced by \s+, directives by their alternations
RECURSIVE strptime_compile(_, _)
strptime_compile(format, k) ==
    IF k > Len(format) THEN <<>>
    ELSE IF format[k] = "%" /\ k < Len(format)
    THEN <<[kind |-> "dir", ch |-> format[k + 1], name |-> format[k + 1], cls |-> "",
            min |-> IF format[k + 1] = "Y" THEN 4 ELSE IF format[k + 1] = "b" THEN 3 ELSE 1,
            max |-> IF format[k + 1] = "Y" THEN 4 ELSE IF format[k + 1] = "b" THEN 3
                    ELSE IF format[k + 1] = "f" THEN 6 ELSE 2]>>
         \o strptime_compile(format, k + 2)
    ELSE <<[kind |-> IF IsSpace(format[k]) THEN "space" ELSE "lit", ch |-> format[k],
            name |-> "", cls |-> "", min |-> 1,
            max |-> IF IsSpace(format[k]) THEN 0 ELSE 1]>>
         \o strptime_compile(format, k + 1)

\* the month abbreviations of the C locale, lower case (%b is matched
\* ignoring case)
MonthAbbr == <<
    <<"j", "a", "n">>, <<"f", "e", "b">>, <<"m", "a", "r">>, <<"a", "p", "r">>,
    <<"m", "a", "y">>, <<"j", "u", "n">>, <<"j", "u", "l">>, <<"a", "u", "g">>,
    <<"s", "e", "p">>, <<"o", "c", "t">>, <<"n", "o", "v">>, <<"d", "e", "c">>
>>

\* the month abbreviations as strftime writes them
MonthName == <<
    <<"J", "a", "n">>, <<"F", "e", "b">>, <<"M", "a", "r">>, <<"A", "p", "r">>,
    <<"M", "a", "y">>, <<"J", "u", "n">>, <<"J", "u", "l">>, <<"A", "u", "g">>,
    <<"S", "e", "p">>, <<"O", "c", "t">>, <<"N", "o", "v">>, <<"D", "e", "c">>
>>

AllDigits(t) == \A k \in DOMAIN t : IsDigit(t[k])

\* the alternation _strptime gives a directive, as a test of the text taken
DirAccepts(d, t) ==
    LET a == t[1]
        b == t[2]
        av == DigitVal(a)
        bv == DigitVal(b)
    IN  CASE d = "Y" -> Len(t) = 4 /\ AllDigits(t)
          [] d = "f" -> Len(t) >= 1 /\ Len(t) <= 6 /\ AllDigits(t)
          [] d = "b" -> LowerStr(t) \in Range(MonthAbbr)
          [] d = "m" -> \/ Len(t) = 2 /\ AllDigits(t)
                           /\ ((a = "1" /\ bv <= 2) \/ (a = "0" /\ bv >= 1))
                        \/ Len(t) = 1 /\ AllDigits(t) /\ av >= 1
          [] d = "d" -> \/ Len(t) = 2 /\ AllDigits(t)
                           /\ ((a = "3" /\ bv <= 1) \/ a \in {"1", "2"} \/ (a = "0" /\ bv >= 1))
                        \/ Len(t) = 2 /\ a = " " /\ IsDigit(b) /\ bv >= 1
                        \/ Len(t) = 1 /\ AllDigits(t) /\ av >= 1
          [] d = "H" -> \/ Len(t) = 2 /\ AllDigits(t)
                           /\ ((a = "2" /\ bv <= 3) \/ a \in {"0", "1"})
                        \/ Len(t) = 1 /\ AllDigits(t)
          [] d = "M" -> \/ Len(t) = 2 /\ AllDigits(t) /\ av <= 5
                        \/ Len(t) = 1 /\ AllDigits(t)
          [] d = "S" -> \/ Len(t) = 2 /\ AllDigits(t)
                           /\ ((a = "6" /\ bv <= 1) \/ av <= 5)
                        \/ Len(t) = 1 /\ AllDigits(t)
          [] OTHER -> FALSE

\* whether a token may take the text t
Accepts(tok, t) ==
    CASE tok.kind = "lit" -> t = <<tok.ch>>
      [] tok.kind = "any" -> Len(t) = 1
      [] tok.kind = "space" -> \A k \in DOMAIN t : IsSpace(t[k])
      [] tok.kind = "group" ->
            \A k \in DOMAIN t : IF tok.cls = "digit" THEN IsDigit(t[k]) ELSE IsAlpha(t[k])
      [] tok.kind = "dir" -> DirAccepts(tok.name, t)

NoMatch == [ok |-> FALSE, end |-> 0, groups |-> <<>>]

\* The backtracking match of tokens k.. of pattern toks at position pos
\* (1-based) of s: each token takes the longest text it accepts for which
\* the rest of the pattern still matches.  end is the position after the
\* match; groups lists [name, from, to] with from, to as match.span gives
\* them (0-based, to exclusive).
RECURSIVE re_match_at(_, _, _, _)
RECURSIVE re_try_width(_, _, _, _, _)
\* the widest text token tok may take at pos
Widest(tok, s, pos) ==
    IF tok.max = 0 THEN Len(s) - pos + 1 ELSE Min(tok.max, Len(s) - pos + 1)

re_match_at(toks, k, s, pos) ==
    IF k > Len(toks) THEN [ok |-> TRUE, end |-> pos, groups |-> <<>>]
    ELSE re_try_width(toks, k, s, pos, Widest(toks[k], s, pos))

\* the match of token tok on w characters at pos, before the match rest of
\* the rest of the pattern
WithToken(tok, pos, w, rest) ==
    [ok |-> TRUE, end |-> rest.end,
     groups |-> IF tok.kind \in {"group", "dir"}
                THEN <<[name |-> tok.name, from |-> pos - 1, to |-> pos - 1 + w]>>
                     \o rest.groups
                ELSE rest.groups]

\* rest, the match of the rest of the pattern after w characters, if it is
\* one; else the next narrower try
RestOrNarrower(toks, k, s, pos, w, rest) ==
    IF rest.ok THEN WithToken(toks[k], pos, w, rest)
    ELSE re_try_width(toks, k, s, pos, w - 1)

re_try_width(toks, k, s, pos, w) ==
    IF w < toks[k].min THEN NoMatch
    ELSE IF Accepts(toks[k], SubSeq(s, pos, pos + w - 1))
    THEN RestOrNarrower(toks, k, s, pos, w, re_match_at(toks, k + 1, s, pos + w))
    ELSE re_try_width(toks, k, s, pos, w - 1)

\* re.match: the match at the start of s
re_match(toks, s) == re_match_at(toks, 1, s, 1)

HasGroup(match, name) == \E k \in DOMAIN match.groups : match.groups[k].name = name

\* match.span(name)
GroupOf(match, name) ==
    match.groups[CHOOSE k \in DOMAIN match.groups : match.groups[k].name = name]

span(match, name) == <<GroupOf(match, name).from, GroupOf(match, name).to>>

\* match.group(name), for a group the pattern has
group(match, s, name) ==
    SubSeq(s, GroupOf(match, name).from + 1, GroupOf(match, name).to)

\* re.finditer: the spans <<from, to>> of the non-overlapping matches of the
\* pattern in s, left to right, searching from position pos
RECURSIVE re_finditer(_, _, _)
FoundOrNext(toks, s, pos, m) ==
    IF m.ok THEN <<<<pos - 1, m.end - 1>>>> \o re_finditer(toks, s, m.end)
    ELSE re_finditer(toks, s, pos + 1)

re_finditer(toks, s, pos) ==
    IF pos > Len(s) THEN <<>>
    ELSE FoundOrNext(toks, s, pos, re_match_at(toks, 1, s, pos))

\* ------------------------------------------------------------------------
\* datetime.strptime and the writing of a value in a format
\* ------------------------------------------------------------------------
ValueError(origin) == [kind |-> "raise", exc |-> "ValueError", origin |-> origin]

TypeError == [kind |-> "raise", exc |-> "TypeError", origin |-> "call"]

OverflowError == [kind |-> "raise", exc |-> "OverflowError", origin |-> "call"]

Value(dt) == [kind |-> "value", dt |-> dt]

\* the value of the text t of directive d
TextValue(d, t) ==
    CASE d = "b" -> CHOOSE k \in 1..12 : MonthAbbr[k] = LowerStr(t)
      [] d = "f" -> int(t \o [k \in 1..(6 - Len(t)) |-> "0"])
      [] d = "d" /\ t[1] = " " -> DigitVal(t[2])
      [] OTHER -> int(t)

\* the value of a directive's text, or the default where the format lacks it
DirValue(match, s, d, default) ==
    IF ~HasGroup(match, d) THEN default ELSE TextValue(d, group(match, s, d))

\* the datetime of the fields, or ValueError when they name no date
datetime_or_error(y, mo, d, H, M, S, f) ==
    IF FieldsValid(y, mo, d, H, M, S, f) THEN Value(datetime(y, mo, d, H, M, S, f))
    ELSE ValueError("strptime")

\* the result of strptime from the match m of its pattern
strptime_found(m, data_string) ==
    IF ~m.ok \/ m.end # Len(data_string) + 1 THEN ValueError("strptime")
    ELSE datetime_or_error(
            DirValue(m, data_string, "Y", 1900),
            IF HasGroup(m, "b") THEN DirValue(m, data_string, "b", 1)
            ELSE DirValue(m, data_string, "m", 1),
            DirValue(m, data_string, "d", 1),
            DirValue(m, data_string, "H", 0),
            DirValue(m, data_string, "M", 0),
            DirValue(m, data_string, "S", 0),
            DirValue(m, data_string, "f", 0))

\* datetime.strptime(data_string, format): the value, or ValueError when the
\* pattern does not match, does not take the whole string, or names no date
strptime(data_string, format) ==
    strptime_found(re_match(strptime_compile(format, 1), data_string), data_string)

\* The fields v written in the layout of format: four-digit year, two-digit
\* month, day, hour, minute and second, six-digit microsecond, month name
RECURSIVE strftime(_, _, _)
strftime(v, format, k) ==
    IF k > Len(format) THEN <<>>
    ELSE IF format[k] = "%" /\ k < Len(format)
    THEN (CASE format[k + 1] = "Y" -> Pad(v.year, 4)
            [] format[k + 1] = "m" -> Pad(v.month, 2)
            [] format[k + 1] = "d" -> Pad(v.day, 2)
            [] format[k + 1] = "H" -> Pad(v.hour, 2)
            [] format[k + 1] = "M" -> Pad(v.minute, 2)
            [] format[k + 1] = "S" -> Pad(v.second, 2)
            [] format[k + 1] = "f" -> Pad(v.microsecond, 6)
            [] format[k + 1] = "b" -> MonthName[v.month])
         \o strftime(v, format, k + 2)
    ELSE <<format[k]>> \o strftime(v, format, k + 1)

\* ------------------------------------------------------------------------
\* sunpy.time helpers
\* ------------------------------------------------------------------------
\* None, and a present value n, as the results of _group_or_none
None == <<>>

\* _group_or_none(match, group, int): None when the pattern has no such
\* group, else int() of the group's text
_group_or_none(match, s, g) ==
    IF ~HasGroup(match, g) THEN None ELSE <<int(group(match, s, g))>>

_n_or_eq(a, b) == a = None \/ a = <<b>>

\* all(_n_or_eq(_group_or_none(match, g, int), 00) for g in [...])
LeapHourFieldsZero(match, s) ==
    \A g \in {"minute", "second", "microsecond"} :
        _n_or_eq(_group_or_none(match, s, g), 0)

\* regex_parse_time_match that rewrites the hour 24 and forgets the day
regex_parse_time_match_no_offset(inp, match) ==
    IF ~match.ok THEN [kind |-> "none"]
    ELSE IF ~HasGroup(match, "hour")
    THEN [kind |-> "pair", ts |-> inp, time_delta |-> timedelta(0, 0, 0)]
    ELSE IF group(match, inp, "hour") = <<"2", "4">>
    THEN IF ~LeapHourFieldsZero(match, inp)
         THEN ValueError("_regex_parse_time")
         ELSE [kind |-> "pair",
               ts |-> SubSeq(inp, 1, span(match, "hour")[1]) \o <<"0", "0">>
                      \o SubSeq(inp, span(match, "hour")[2] + 1, Len(inp)),
               time_delta |-> timedelta(0, 0, 0)]
    ELSE [kind |-> "pair", ts |-> inp, time_delta |-> timedelta(0, 0, 0)]

\* inp with the hour's text replaced by "00"
HourRewritten(inp, from_, to) ==
    SubSeq(inp, 1, from_) \o <<"0", "0">> \o SubSeq(inp, to + 1, Len(inp))

\* _regex_parse_time after re.match returned match
regex_parse_time_match(inp, match) ==
    IF ~match.ok THEN [kind |-> "none"]
    ELSE IF ~HasGroup(match, "hour")
    THEN [kind |-> "pair", ts |-> inp, time_delta |-> timedelta(0, 0, 0)]
    ELSE IF group(match, inp, "hour") = <<"2", "4">>
    THEN IF ~LeapHourFieldsZero(match, inp)
         THEN ValueError("_regex_parse_time")
         ELSE [kind |-> "pair",
               ts |-> HourRewritten(inp, span(match, "hour")[1], span(match, "hour")[2]),
               time_delta |-> timedelta(1, 0, 0)]
    ELSE [kind |-> "pair", ts |-> inp, time_delta |-> timedelta(0, 0, 0)]

\* _regex_parse_time(inp, format): [kind |-> "none"] for (None, None),
\* [kind |-> "pair", ts, time_delta] for a returned pair, ValueError for the
\* hour 24 with a nonzero minute, second or microsecond, TypeError when
\* re.match is handed something that is not a string
_regex_parse_time(inp, format) ==
    IF inp.kind # "string" THEN TypeError
    ELSE regex_parse_time_match(inp.text, re_match(re_compile(format, 1), inp.text))

\* One strptime of find_time's loop: the yields of the matches from the
\* k-th on, those strptime rejects skipped
RECURSIVE find_time_from(_, _, _, _)
Yield(dt) == IF dt.kind = "value" THEN <<dt.dt>> ELSE <<>>

find_time_from(string, format, spans, k) ==
    IF k > Len(spans) THEN <<>>
    ELSE Yield(strptime(SubSeq(string, spans[k][1] + 1, spans[k][2]), format))
         \o find_time_from(string, format, spans, k + 1)

\* find_time(string, format): the values the generator yields, in order
find_time(string, format) ==
    find_time_from(string, format, re_finditer(re_compile(format, 1), string, 1), 1)

\* _iter_empty that takes every generator for empty
_iter_empty_always(iter) == TRUE

\* _iter_empty(iter), for the generator left after its first value was taken
_iter_empty(iter) == iter = <<>>

\* ------------------------------------------------------------------------
\* parse_time, one pattern of its loop at a time
\* ------------------------------------------------------------------------
\* datetime(*time_string) for a tuple: TypeError for fewer than the three
\* required components, for more than datetime takes and for a component
\* that is not an integer, ValueError for a component out of range
datetime_of_tuple(t) ==
    LET it == t.items
        at(k) == IF k <= Len(it) THEN it[k] ELSE 0
    IN  IF Len(it) < 3 \/ Len(it) > 7 \/ t.nonint THEN TypeError
        ELSE IF FieldsValid(it[1], it[2], it[3], at(4), at(5), at(6), at(7))
        THEN Value(datetime(it[1], it[2], it[3], at(4), at(5), at(6), at(7)))
        ELSE ValueError("datetime")

\* datetime(1979, 1, 1) + timedelta(0, time_string).  The number n is held
\* as n = 86400 * q + r + us / 10^6, so that numbers of seconds beyond 2^31
\* can be written; timedelta(0, n) is then timedelta(q, r, us).
datetime_sum(sum) == IF sum.kind = "value" THEN Value(sum.dt) ELSE OverflowError

\* the date-time n days after the epoch, the fraction of n a fraction of a
\* day; timedelta refuses more than 999999999 days
DaysAfterEpoch(n) ==
    IF n.q > 11000 \/ n.q < -11000 THEN OverflowError
    ELSE datetime_sum(datetime_add(datetime(1979, 1, 1, 0, 0, 0, 0),
                                   timedelta(86400 * n.q + n.r, (n.us * 864) \div 10000,
                                             ((n.us * 864) % 10000) * 100)))

\* datetime_of_number with the number as timedelta's first argument, days
datetime_of_number_days(n) == DaysAfterEpoch(n)

datetime_of_number(n) ==
    datetime_sum(datetime_add(datetime(1979, 1, 1, 0, 0, 0, 0), timedelta(n.q, n.r, n.us)))

\* parse_time_return that leaves the loop when strptime rejects the string
parse_time_return_break(dt, time_delta) ==
    IF dt.kind = "raise" THEN [next |-> "break", result |-> dt]
    ELSE [next |-> "return", result |-> datetime_sum(datetime_add(dt.dt, time_delta))]

\* return datetime.strptime(ts, time_format) + time_delta, given what
\* strptime gave
parse_time_return(dt, time_delta) ==
    IF dt.kind = "raise" THEN [next |-> "continue", result |-> dt]
    ELSE [next |-> "return", result |-> datetime_sum(datetime_add(dt.dt, time_delta))]

\* parse_time_after that lets the ValueError of _regex_parse_time out of
\* the loop
parse_time_after_propagate(r, time_format) ==
    IF r.kind = "raise" /\ r.exc = "TypeError" THEN [next |-> "break", result |-> r]
    ELSE IF r.kind = "raise" THEN [next |-> "raise", result |-> r]
    ELSE IF r.kind = "none" THEN [next |-> "continue", result |-> r]
    ELSE IF strptime(r.ts, time_format).kind = "raise"
    THEN [next |-> "continue", result |-> strptime(r.ts, time_format)]
    ELSE [next |-> "return",
          result |-> datetime_sum(datetime_add(strptime(r.ts, time_format).dt, r.time_delta))]

\* parse_time_after that goes on to the next pattern after a TypeError
parse_time_after_no_break(r, time_format) ==
    IF r.kind = "raise" THEN [next |-> "continue", result |-> r]
    ELSE IF r.kind = "none" THEN [next |-> "continue", result |-> r]
    ELSE IF strptime(r.ts, time_format).kind = "raise"
    THEN [next |-> "continue", result |-> strptime(r.ts, time_format)]
    ELSE [next |-> "return",
          result |-> datetime_sum(datetime_add(strptime(r.ts, time_format).dt, r.time_delta))]

\* the body of the for loop after _regex_parse_time gave r: TypeError
\* breaks, ValueError passes, (None, None) continues
parse_time_after(r, time_format) ==
    IF r.kind = "raise" /\ r.exc = "TypeError" THEN [next |-> "break", result |-> r]
    ELSE IF r.kind = "raise" THEN [next |-> "continue", result |-> r]
    ELSE IF r.kind = "none" THEN [next |-> "continue", result |-> r]
    ELSE parse_time_return(strptime(r.ts, time_format), r.time_delta)

\* The body of the for loop for one time_format: what it does next
\* ("return", "continue" or "break") and the value or error
parse_time_try(time_string, time_format) ==
    parse_time_after(_regex_parse_time(time_string, time_format), time_format)

\* ------------------------------------------------------------------------
\* extract_time, one pattern of its loop at a time
\* ------------------------------------------------------------------------
\* tie_break that keeps the pattern matched first whatever matches later
tie_break_no_raise(matched, bestmatch, time_format, match) ==
    IF matched # <<>>
    THEN IF Len(matched) <= Len(time_format)
            /\ SubSeq(time_format, 1, Len(matched)) = matched
         THEN [raise |-> FALSE, matched |-> time_format, bestmatch |-> match]
         ELSE [raise |-> FALSE, matched |-> matched, bestmatch |-> bestmatch]
    ELSE [raise |-> FALSE, matched |-> time_format, bestmatch |-> match]

\* tie_break that does not move on to a longer pattern matched later
tie_break_keep_first(matched, bestmatch, time_format, match) ==
    IF matched # <<>>
    THEN IF Len(matched) <= Len(time_format)
            /\ SubSeq(time_format, 1, Len(matched)) = matched
         THEN [raise |-> FALSE, matched |-> matched, bestmatch |-> bestmatch]
         ELSE IF ~(Len(time_format) <= Len(matched)
                   /\ SubSeq(matched, 1, Len(time_format)) = time_format)
         THEN [raise |-> TRUE, matched |-> matched, bestmatch |-> bestmatch]
         ELSE [raise |-> FALSE, matched |-> matched, bestmatch |-> bestmatch]
    ELSE [raise |-> FALSE, matched |-> time_format, bestmatch |-> match]

\* The tie-break between the pattern matched so far and the one just
\* matched: the new (matched, bestmatch), or the "Ambiguous string" error
tie_break(matched, bestmatch, time_format, match) ==
    IF matched # None
    THEN IF startswith(time_format, matched)
         THEN [raise |-> FALSE, matched |-> time_format, bestmatch |-> match]
         ELSE IF ~startswith(matched, time_format)
         THEN [raise |-> TRUE, matched |-> matched, bestmatch |-> bestmatch]
         ELSE [raise |-> FALSE, matched |-> matched, bestmatch |-> bestmatch]
    ELSE [raise |-> FALSE, matched |-> time_format, bestmatch |-> match]

\* the check of _iter_empty(found) after the tie-break gave t
after_tie_break(t, rest) ==
    IF t.raise THEN t
    ELSE IF ~_iter_empty(rest)
    THEN [raise |-> TRUE, matched |-> t.matched, bestmatch |-> t.bestmatch]
    ELSE t

\* the body of the for loop given the values found yields
extract_time_found(matched, bestmatch, time_format, found) ==
    IF found = <<>>
    THEN [raise |-> FALSE, matched |-> matched, bestmatch |-> bestmatch]
    ELSE after_tie_break(tie_break(matched, bestmatch, time_format, Value(Head(found))),
                         Tail(found))

\* The body of the for loop for one time_format
extract_time_try(matched, bestmatch, string, time_format) ==
    extract_time_found(matched, bestmatch, time_format, find_time(string, time_format))

\* ------------------------------------------------------------------------
\* Inputs
\* ------------------------------------------------------------------------
\* how many days before each anchor date the sample dates reach
MaxDayStep == 1

\* numbers n = 86400 * q + r + us / 10^6 with q in -MaxQ..MaxQ
MaxQ == 1

\* the last day of the date range, of a year, of February in a leap year,
\* of a 30-day month, and the epoch of numeric input
AnchorDates == {<<9999, 12, 31>>, <<2008, 12, 31>>, <<2008, 2, 29>>, <<2007, 4, 30>>}

Dates == {_ord2ymd(_ymd2ord(a[1], a[2], a[3]) - k) : a \in AnchorDates, k \in 0..MaxDayStep}

\* <<hour, minute, second, microsecond>>, the hour 24 among them
Times == {<<0, 0, 0, 0>>, <<9, 5, 1, 10>>, <<21, 8, 12, 999999>>, <<23, 59, 59, 500000>>,
          <<24, 0, 0, 0>>, <<24, 30, 0, 0>>, <<24, 0, 7, 0>>}

FieldValues == {datetime(d[1], d[2], d[3], t[1], t[2], t[3], t[4]) : d \in Dates, t \in Times}

\* whether format has the code c
HasCode(format, c) == \E k \in 1..(Len(format) - 1) : format[k] = "%" /\ format[k + 1] = c

\* the fields of v that format writes, the others zero
Project(v, format) ==
    datetime(v.year, v.month, v.day,
             IF HasCode(format, "H") THEN v.hour ELSE 0,
             IF HasCode(format, "M") THEN v.minute ELSE 0,
             IF HasCode(format, "S") THEN v.second ELSE 0,
             IF HasCode(format, "f") THEN v.microsecond ELSE 0)

\* a string argument: its text and, for a text written from field values v
\* in the layout of TIME_FORMAT_LIST[pat], those (pat = 0: any other text)
Written(v, pat) ==
    [kind |-> "string", text |-> strftime(v, TIME_FORMAT_LIST[pat], 1), pat |-> pat,
     v |-> Project(v, TIME_FORMAT_LIST[pat])]

OtherText(t) == [kind |-> "string", text |-> t, pat |-> 0, v |-> datetime(0, 0, 0, 0, 0, 0, 0)]

StringInputs ==
    {Written(v, pat) : v \in FieldValues, pat \in 1..NFormats}
    \cup {OtherText(<<>>), OtherText(<<"n", "o", "w">>),
          OtherText(<<"2", "0", "0", "7", "/", "0", "5", "/", "0", "4", " ", " ",
                      "2", "1", ":", "0", "8">>),
          OtherText(<<"2", "0", "0", "7", "-", "0", "2", "-", "2", "9">>)}

NowSamples == {datetime(2012, 8, 1, 12, 0, 0, 0), datetime(2012, 8, 1, 12, 0, 0, 1)}

TupleInputs ==
    {[kind |-> "tuple", items |-> it, nonint |-> b] :
        it \in {<<2007>>, <<2007, 5>>, <<2007, 5, 4>>, <<2007, 5, 4, 21, 8, 12, 999999>>,
                <<2007, 13, 4>>, <<2007, 2, 29>>, <<2007, 5, 4, 24>>,
                <<2007, 5, 4, 21, 8, 12, 999999, 0>>},
        b \in BOOLEAN}

NumberInputs ==
    {[kind |-> "number", q |-> q, r |-> r, us |-> us] :
        q \in (-MaxQ..MaxQ) \cup {3000000, -1000000},
        r \in {-1, 0, 1, 86399, 86400, 90061},
        us \in {0, 500000}}

ParseInputs ==
    StringInputs \cup TupleInputs \cup NumberInputs
    \cup {[kind |-> "None"], [kind |-> "object"]}
    \cup {[kind |-> "datetime", dt |-> d] : d \in NowSamples}

\* how many characters of other text stand before and after the timestamps
MaxPad == 1

\* other text around the timestamps: nothing, letters, or digits (which can
\* run into a timestamp's own digits)
Repeat(c, n) == [k \in 1..n |-> c]

Pads == {<<>>} \cup {Repeat(c, n) : c \in {"x", "1"}, n \in 1..MaxPad}

\* the first timestamp of a text: a valid value, and one whose day is no
\* day of the month (matched by the pattern's regex, rejected by strptime)
FirstValues == {datetime(2007, 5, 4, 21, 8, 12, 999999), datetime(2007, 5, 32, 21, 8, 12, 0)}

SecondValues == {datetime(2008, 12, 31, 23, 59, 59, 0)}

\* the patterns of the first, second and third timestamp of the texts that
\* hold three
ThreePatterns == {1, 13, 17} \X {3, 10, 18} \X {8, 16, 19}

\* texts holding one timestamp with other text around it, or two or three
\* timestamps separated by a space
ExtractInputs ==
    {[kind |-> "string", text |-> pad \o strftime(v, TIME_FORMAT_LIST[p], 1) \o pad] :
        pad \in Pads, v \in FirstValues, p \in 1..NFormats}
    \cup {[kind |-> "string",
           text |-> strftime(v, TIME_FORMAT_LIST[p], 1) \o <<" ">>
                    \o strftime(w, TIME_FORMAT_LIST[q], 1)] :
            v \in FirstValues, p \in 1..NFormats, w \in SecondValues, q \in 1..NFormats}
    \cup {[kind |-> "string",
           text |-> strftime(v, TIME_FORMAT_LIST[t[1]], 1) \o <<" ">>
                    \o strftime(w, TIME_FORMAT_LIST[t[2]], 1) \o <<" ">>
                    \o strftime(w, TIME_FORMAT_LIST[t[3]], 1)] :
            v \in FirstValues, w \in SecondValues, t \in ThreePatterns}
    \cup {[kind |-> "string", text |-> pad] : pad \in Pads}

\* ------------------------------------------------------------------------
\* State
\* ------------------------------------------------------------------------
VARIABLES
    fn,         \* the function called: "parse_time", "is_time" or "extract_time"
    arg,        \* its argument
    pc,         \* where the call is
    i,          \* the index in TIME_FORMAT_LIST of the for loop's time_format
    matched,    \* extract_time's matched
    bestmatch,  \* extract_time's bestmatch
    result,     \* what the call returned or raised, once it has
    tried       \* the indices of the patterns parse_time's loop has tried

vars == <<fn, arg, pc, i, matched, bestmatch, result, tried>>

Pending == [kind |-> "pending"]

Return(b) == [kind |-> "return", val |-> b]

InitParse ==
    /\ fn \in {"parse_time", "is_time"}
    /\ arg \in ParseInputs
    /\ pc = IF fn = "is_time" THEN "is_time_call" ELSE "parse_time_call"
    /\ i = 0
    /\ matched = None
    /\ bestmatch = None
    /\ result = Pending
    /\ tried = {}

\* where control goes when parse_time returns or raises
AfterParse == IF fn = "is_time" THEN "is_time_try" ELSE "done"

\* is_time up to its call of parse_time: "if None" is never true, a datetime
\* is valid, anything else is handed to parse_time
IsTimeCall ==
    /\ pc = "is_time_call"
    /\ IF arg.kind = "datetime"
       THEN pc' = "done" /\ result' = Return(TRUE)
       ELSE pc' = "parse_time_call" /\ result' = result
    /\ UNCHANGED <<fn, arg, i, matched, bestmatch, tried>>

\* parse_time's dispatch on the type of time_string
ParseTimeCall ==
    /\ pc = "parse_time_call"
    /\ \E now \in NowSamples :
        IF arg.kind \in {"string", "object"}
        THEN pc' = "parse_time_loop" /\ i' = 1 /\ result' = result
        ELSE /\ pc' = AfterParse
             /\ i' = i
             /\ result' = CASE arg.kind = "None" -> Value(now)
                            [] arg.kind = "datetime" -> Value(arg.dt)
                            [] arg.kind = "tuple" -> datetime_of_tuple(arg)
                            [] arg.kind = "number" -> datetime_of_number(arg)
    /\ UNCHANGED <<fn, arg, matched, bestmatch, tried>>

\* what one pass of the loop that ended as t does to the state
ParseTimeStep(t) ==
    /\ tried' = tried \cup {i}
    /\ CASE t.next = "continue" ->
              pc' = pc /\ i' = i + 1 /\ result' = result
         [] t.next = "break" ->
              pc' = "parse_time_raise" /\ i' = i /\ result' = result
         [] OTHER ->
              pc' = AfterParse /\ i' = i /\ result' = t.result

\* one pass of parse_time's for loop
ParseTimeTry ==
    /\ pc = "parse_time_loop"
    /\ i <= NFormats
    /\ ParseTimeStep(parse_time_try(arg, TIME_FORMAT_LIST[i]))
    /\ UNCHANGED <<fn, arg, matched, bestmatch>>

\* the raise after the loop, reached when the loop ran out of patterns or
\* was left by break
ParseTimeRaise ==
    /\ \/ pc = "parse_time_loop" /\ i > NFormats
       \/ pc = "parse_time_raise"
    /\ pc' = AfterParse
    /\ result' = ValueError("parse_time")
    /\ UNCHANGED <<fn, arg, i, matched, bestmatch, tried>>

\* is_time's try: False for a ValueError, True for a value; any other
\* exception is not caught
IsTimeReturn ==
    /\ pc = "is_time_try"
    /\ pc' = "done"
    /\ result' = IF result.kind = "value" THEN Return(TRUE)
                 ELSE IF result.exc = "ValueError" THEN Return(FALSE)
                 ELSE result
    /\ UNCHANGED <<fn, arg, i, matched, bestmatch, tried>>

NextParse ==
    \/ IsTimeCall
    \/ ParseTimeCall
    \/ ParseTimeTry
    \/ ParseTimeRaise
    \/ IsTimeReturn

SpecParse == InitParse /\ [][NextParse]_vars

InitExtract ==
    /\ fn = "extract_time"
    /\ arg \in ExtractInputs
    /\ pc = "extract_time_loop"
    /\ i = 1
    /\ matched = None
    /\ bestmatch = None
    /\ result = Pending
    /\ tried = {}

\* what one pass of the loop that ended as t does to the state
ExtractTimeStep(t) ==
    /\ matched' = t.matched
    /\ bestmatch' = t.bestmatch
    /\ IF t.raise
       THEN pc' = "done" /\ i' = i /\ result' = ValueError("Ambiguous string")
       ELSE pc' = pc /\ i' = i + 1 /\ result' = result

\* one pass of extract_time's for loop
ExtractTimeTry ==
    /\ pc = "extract_time_loop"
    /\ i <= NFormats
    /\ ExtractTimeStep(extract_time_try(matched, bestmatch, arg.text, TIME_FORMAT_LIST[i]))
    /\ UNCHANGED <<fn, arg, tried>>

\* after the loop: "Time not found" when nothing matched, else bestmatch
ExtractTimeEnd ==
    /\ pc = "extract_time_loop"
    /\ i > NFormats
    /\ pc' = "done"
    /\ result' = IF matched = None THEN ValueError("Time not found") ELSE bestmatch
    /\ UNCHANGED <<fn, arg, i, matched, bestmatch, tried>>

NextExtract ==
    \/ ExtractTimeTry
    \/ ExtractTimeEnd

SpecExtract == InitExtract /\ [][NextExtract]_vars

Init == InitParse \/ InitExtract

Next ==
    \/ IsTimeCall
    \/ ParseTimeCall
    \/ ParseTimeTry
    \/ ParseTimeRaise
    \/ IsTimeReturn
    \/ ExtractTimeTry
    \/ ExtractTimeEnd

Spec == Init /\ [][Next]_vars

\* ------------------------------------------------------------------------
\* Properties
\* ------------------------------------------------------------------------
Done(f) == fn = f /\ pc = "done"

NotAValidTimeString == ValueError("parse_time")

Ambiguous == ValueError("Ambiguous string")

EpochOrdinal == _ymd2ord(1979, 1, 1)

SecondsOfDay(dt) == dt.hour * 3600 + dt.minute * 60 + dt.second

\* the argument was written in a catalog pattern that has the code c
WrittenWith(c) ==
    arg.kind = "string" /\ arg.pat # 0 /\ HasCode(TIME_FORMAT_LIST[arg.pat], c)

\* 00:00:00.000000 of the day after the date of v, by the calendar
NextMidnight(v) ==
    IF v.day < _days_in_month(v.year, v.month)
    THEN datetime(v.year, v.month, v.day + 1, 0, 0, 0, 0)
    ELSE IF v.month < 12 THEN datetime(v.year, v.month + 1, 1, 0, 0, 0, 0)
    ELSE datetime(v.year + 1, 1, 1, 0, 0, 0, 0)

LastDate(v) == v.year = 9999 /\ v.month = 12 /\ v.day = 31

\* C1 as stated: parse of a number n returns the date-time n days after
\* 1979-01-01 00:00:00, the fraction of n giving the time within the day.
C1_NumberIsDaysAfterEpoch ==
    (Done("parse_time") /\ arg.kind = "number" /\ arg.q \in -MaxQ..MaxQ)
        => result = DaysAfterEpoch(arg)

\* C1 amended: parse of a number n returns the date-time n seconds after
\* 1979-01-01 00:00:00, the fraction of n giving the microseconds, when that
\* date-time is within the date range, and raises OverflowError when not.
C1_NumberIsSecondsAfterEpoch ==
    (Done("parse_time") /\ arg.kind = "number") =>
        LET ord == EpochOrdinal + arg.q + (arg.r \div 86400)
        IN  IF 1 <= ord /\ ord <= _MAXORDINAL
            THEN /\ result.kind = "value"
                 /\ FieldsValid(result.dt.year, result.dt.month, result.dt.day,
                                result.dt.hour, result.dt.minute, result.dt.second,
                                result.dt.microsecond)
                 /\ _ymd2ord(result.dt.year, result.dt.month, result.dt.day) = ord
                 /\ SecondsOfDay(result.dt) = arg.r % 86400
                 /\ result.dt.microsecond = arg.us
            ELSE result = OverflowError

\* parse_time(1) has returned 1979-01-01 00:00:01
C1_Witness ==
    /\ Done("parse_time")
    /\ arg = [kind |-> "number", q |-> 0, r |-> 1, us |-> 0]
    /\ result = Value(datetime(1979, 1, 1, 0, 0, 1, 0))

\* C2 as stated: is_time never raises; it returns a boolean for every input.
C2_IsTimeNeverRaises == Done("is_time") => result.kind = "return"

\* the argument is a string written with the hour 24 and minute, second and
\* microsecond zero
LeapHourInput ==
    /\ WrittenWith("H")
    /\ arg.v.hour = 24 /\ arg.v.minute = 0 /\ arg.v.second = 0 /\ arg.v.microsecond = 0

\* C3 as stated: parse of a string written in a pattern with an hour, with
\* hour 24 on any valid date D and the other time fields zero, returns
\* midnight of the day after D and never fails.
C3_Hour24IsNextMidnight ==
    (Done("parse_time") /\ LeapHourInput) => result = Value(NextMidnight(arg.v))

\* C3 amended: the same for every date D before 9999-12-31; for D =
\* 9999-12-31, whose next day is outside the date range, parse raises
\* OverflowError.
C3_Hour24IsNextMidnightInRange ==
    (Done("parse_time") /\ LeapHourInput) =>
        IF LastDate(arg.v) THEN result = OverflowError
        ELSE result = Value(NextMidnight(arg.v))

\* hour 24 on the last day of a year has returned the first day of the next
C3_Witness ==
    /\ Done("parse_time")
    /\ LeapHourInput
    /\ arg.v.year = 2008 /\ arg.v.month = 12 /\ arg.v.day = 31
    /\ result = Value(datetime(2009, 1, 1, 0, 0, 0, 0))

\* the argument is a string written with the hour 24 and a nonzero minute
LeapHourMinuteInput == WrittenWith("H") /\ arg.v.hour = 24 /\ arg.v.minute # 0

\* C4 as stated: parse of a string with hour 24 and a nonzero minute fails
\* with the error of the leap-hour check, not with the generic failure that
\* follows the trial of the remaining patterns.
C4_FailsWithLeapHourError ==
    (Done("parse_time") /\ LeapHourMinuteInput) => result = ValueError("_regex_parse_time")

\* C4 amended: parse of a string with hour 24 and a nonzero minute never
\* returns a date-time; the error of the leap-hour check is passed over, every
\* pattern of the catalog is tried, and the failure is the generic "not a
\* valid time string" one.
C4_FailsWithGenericError ==
    (Done("parse_time") /\ LeapHourMinuteInput) =>
        result = NotAValidTimeString /\ tried = 1..NFormats

\* a string with 24:30 has been refused
C4_Witness ==
    /\ Done("parse_time")
    /\ LeapHourMinuteInput
    /\ arg.v.minute = 30
    /\ result = NotAValidTimeString

\* C5: a string written from field values V (hour 0..23) in the layout of
\* catalog pattern P parses to exactly V, and it is P that accepts it: every
\* pattern before P was tried and passed over, none stopped the trial.
C5_RoundTrip ==
    (Done("parse_time") /\ arg.kind = "string" /\ arg.pat # 0 /\ arg.v.hour <= 23) =>
        result = Value(arg.v) /\ i = arg.pat /\ tried = 1..arg.pat

\* a value written in a pattern that follows its own prefixes in the catalog
\* ("%Y/%m/%d %H:%M:%S.%f", after "%Y/%m/%d %H:%M:%S") has come back
C5_Witness ==
    /\ Done("parse_time")
    /\ arg.kind = "string" /\ arg.pat = 10
    /\ arg.v.microsecond = 999999
    /\ result = Value(arg.v)

\* the values find_time yields for the text and the k-th pattern
Yields(k) == find_time(arg.text, TIME_FORMAT_LIST[k])

\* the patterns that yield at least one value
Matching == {k \in 1..NFormats : Yields(k) # <<>>}

PrefixRelated(p, q) ==
    \/ startswith(TIME_FORMAT_LIST[p], TIME_FORMAT_LIST[q])
    \/ startswith(TIME_FORMAT_LIST[q], TIME_FORMAT_LIST[p])

\* pattern p is a proper textual prefix of pattern q
ProperPrefix(p, q) == p # q /\ startswith(TIME_FORMAT_LIST[q], TIME_FORMAT_LIST[p])

\* C6: when two patterns that are not prefixes of one another each yield a
\* value, extract fails with "Ambiguous string".
C6_UnrelatedPatternsAmbiguous ==
    Done("extract_time") =>
        LET M == Matching
        IN  (\E p \in M, q \in M : ~PrefixRelated(p, q)) => result = Ambiguous

\* two unrelated patterns matched once each, with a prefix of the first
\* matching between them
C6_Witness ==
    /\ Done("extract_time")
    /\ result = Ambiguous
    /\ LET M == Matching
       IN  /\ \A k \in M : Len(Yields(k)) = 1
           /\ \E p \in M, r \in M, q \in M :
                 p < r /\ r < q /\ ProperPrefix(r, p) /\ ~PrefixRelated(p, q)

\* C7: when one pattern yields two or more values, extract fails with
\* "Ambiguous string", also when the pattern is a prefix of a longer one
\* that matched once.
C7_RepeatedPatternAmbiguous ==
    Done("extract_time") =>
        ((\E k \in 1..NFormats : Len(Yields(k)) >= 2) => result = Ambiguous)

\* a pattern matched twice that is a prefix of a longer pattern matched once,
\* all matching patterns being prefix-related
C7_Witness ==
    /\ Done("extract_time")
    /\ result = Ambiguous
    /\ LET M == Matching
       IN  /\ \A p \in M, q \in M : PrefixRelated(p, q)
           /\ \E k \in M, q \in M :
                 ProperPrefix(k, q) /\ Len(Yields(k)) >= 2 /\ Len(Yields(q)) = 1

\* the longest of a set of patterns
Longest(M) ==
    CHOOSE k \in M : \A j \in M : Len(TIME_FORMAT_LIST[j]) <= Len(TIME_FORMAT_LIST[k])

\* the matching patterns are prefixes of one another and yield one value each
OneChain(M) ==
    /\ M # {}
    /\ \A p \in M, q \in M : PrefixRelated(p, q)
    /\ \A k \in M : Len(Yields(k)) = 1

\* C8: when the matching patterns are prefixes of one another and yield one
\* value each, extract returns the value of the longest of them.
C8_LongestPrefixWins ==
    Done("extract_time") =>
        LET M == Matching
        IN  OneChain(M) => result = Value(Yields(Longest(M))[1])

\* the longest pattern came after a prefix of it in the catalog, and gave a
\* value its prefixes do not give
C8_Witness ==
    /\ Done("extract_time")
    /\ result.kind = "value"
    /\ result.dt.microsecond # 0
    /\ LET M == Matching
       IN  /\ OneChain(M)
           /\ \E p \in M : p < Longest(M)
           /\ \E p \in M : p > Longest(M)

\* C9 as stated: whenever pattern P is a proper prefix of pattern Q, Q comes
\* before P in the catalog: no pattern the loop reaches is a proper prefix of
\* a pattern still to come.
C9_LongerPatternFirst ==
    (fn = "extract_time" /\ i \in 1..NFormats) =>
        \A q \in 1..NFormats : ProperPrefix(i, q) => q < i

\* C9 amended: whenever P is a proper prefix of Q, Q comes before P, except
\* that "%Y-%m-%dT%H:%M:%S.%f" comes before "%Y-%m-%dT%H:%M:%S.%fZ" and
\* "%Y/%m/%d %H:%M:%S" and "%Y/%m/%d %H:%M" before "%Y/%m/%d %H:%M:%S.%f".
C9_LongerPatternFirstExcept ==
    (fn = "extract_time" /\ i \in 1..NFormats) =>
        \A q \in 1..NFormats :
            ProperPrefix(i, q) => (q < i <=> <<i, q>> \notin {<<1, 3>>, <<8, 10>>, <<9, 10>>})

\* extract_time has gone from a pattern matched to a longer one that follows
\* it in the catalog
C9_Witness ==
    /\ fn = "extract_time"
    /\ matched # None
    /\ \E p \in 1..NFormats, q \in 1..NFormats :
          /\ ProperPrefix(p, q) /\ p < q
          /\ matched = TIME_FORMAT_LIST[q]
          /\ Yields(p) # <<>>

\* C10 as stated: when the trial of a pattern raises a type error, the
\* caller receives that type error, and the generic failure is produced only
\* when every pattern was tried.
C10_TypeErrorPropagates ==
    Done("parse_time") =>
        /\ arg.kind = "object" => result = TypeError
        /\ result = NotAValidTimeString => tried = 1..NFormats

\* C10 amended: when the trial of a pattern raises a type error, no later
\* pattern is tried and the caller receives the generic "not a valid time
\* string" failure; that failure is produced when every pattern was tried
\* without success or when a type error ended the trial.
C10_TypeErrorEndsTrial ==
    /\ pc = "parse_time_raise" => arg.kind = "object" /\ tried = {1}
    /\ Done("parse_time") =>
        /\ arg.kind = "object" => result = NotAValidTimeString /\ tried = {1}
        /\ (result = NotAValidTimeString /\ arg.kind # "object") => tried = 1..NFormats

\* a call with an argument that is no string has failed after one pattern
C10_Witness ==
    /\ Done("parse_time")
    /\ arg.kind = "object"
    /\ tried = {1}
    /\ result = NotAValidTimeString

====
